---- MODULE Spec2Model ----
(***************************************************************************)
(* Model of cosmo_utils/utils/stats_funcs.py: myceil, myfloor,             *)
(* Bins_array_create, sigma_calcs and Stats_one_arr.                       *)
(*                                                                         *)
(* The module keeps no state between calls.  The state of the model is the *)
(* last call made on the imported module (function and arguments) and how  *)
(* that call ended: a returned value, or the exception raised and the      *)
(* source line that raised it.                                             *)
(*                                                                         *)
(* Numbers: a float is modelled by an exact integer, read as a multiple of *)
(* a common unit (a fixed-point grid), or by NaN.  Rounding error of       *)
(* double precision is not modelled.                                       *)
(***************************************************************************)
EXTENDS Integers, Sequences, FiniteSets

VARIABLES call, ret

vars == <<call, ret>>

(***************************************************************************)
(* Bounds of the model.                                                    *)
(***************************************************************************)
MaxVal == 2
MaxLen == 3
MaxBase == 3
MaxSig == 1
MaxCells == 4
MaxLevels == 3
MaxCount == 2
MaxStatVal == 2
MaxStatLen == 2

(***************************************************************************)
(* Floats and arrays.                                                      *)
(***************************************************************************)
\* numpy.nan: the encoding of the not-a-number float (outside every value set).
NaN == -999

IsNaN(v) == v = NaN

Vals == (0 - MaxVal)..MaxVal
Floats == Vals \cup {NaN}
Bases == (0 - 1)..MaxBase

\* A numpy array: its number of dimensions and its data (1-D: a sequence of
\* floats; 2-D: a sequence of rows of equal length).
Arr1D(S, n) == UNION {[1..k -> S] : k \in 0..n}
Arr2D(S, cells) ==
    UNION {[1..r -> [1..c -> S]] :
             <<r, c>> \in {p \in (1..cells) \X (0..cells) : p[1] * p[2] <= cells}}
NdArray1(S, n) == {[ndim |-> 1, data |-> d] : d \in Arr1D(S, n)}
NdArray2(S, cells) == {[ndim |-> 2, data |-> d] : d \in Arr2D(S, cells)}

\* How a call ends.
Return(v) == [kind |-> "return", exc |-> "", line |-> 0, value |-> v]
Raise(e, l) == [kind |-> "raise", exc |-> e, line |-> l, value |-> <<>>]

(***************************************************************************)
(* Rounding: math.floor and math.ceil of the quotient num/den (den # 0).   *)
(***************************************************************************)
math_floor(num, den) == IF den > 0 THEN num \div den ELSE (0 - num) \div (0 - den)

math_ceil(num, den) == 0 - math_floor(0 - num, den)

\* A faulty myceil that rounds down (C1 must tell it from myceil).
myceil_floor(x, base) ==
    IF base = 0 THEN Raise("ZeroDivisionError", 58)
    ELSE IF IsNaN(x) THEN Raise("ValueError", 58)
    ELSE Return(base * math_floor(x, base))

myceil(x, base) ==
    IF base = 0 THEN Raise("ZeroDivisionError", 58)
    ELSE IF IsNaN(x) THEN Raise("ValueError", 58)
    ELSE Return(base * math_ceil(x, base))

myfloor(x, base) ==
    IF base = 0 THEN Raise("ZeroDivisionError", 91)
    ELSE IF IsNaN(x) THEN Raise("ValueError", 91)
    ELSE Return(base * math_floor(x, base))

(***************************************************************************)
(* Bins_array_create.                                                      *)
(***************************************************************************)
SeqMin(s) == CHOOSE m \in {s[i] : i \in DOMAIN s} : \A i \in DOMAIN s : m <= s[i]
SeqMax(s) == CHOOSE m \in {s[i] : i \in DOMAIN s} : \A i \in DOMAIN s : m >= s[i]
HasNaN(s) == \E i \in DOMAIN s : IsNaN(s[i])

\* ndarray.min() / ndarray.max() of a non-empty 1-D array: NaN propagates.
np_min(s) == IF HasNaN(s) THEN NaN ELSE SeqMin(s)
np_max(s) == IF HasNaN(s) THEN NaN ELSE SeqMax(s)

\* numpy.arange(start, stop, step), its three arguments given in half units
\* (stop is arr_max + 0.5*base): ceil((stop - start)/step) elements
\* start + i*step, none when that number is not positive.
np_arange(start2, stop2, step2) ==
    LET n == math_ceil(stop2 - start2, step2)
    IN  [i \in 1..(IF n > 0 THEN n ELSE 0) |-> (start2 + (i - 1) * step2) \div 2]

\* Faulty edges whose range stops at arr_max itself (C2 must tell them from
\* Bins_edges).
Bins_edges_nohalf(arr_min, arr_max, base) ==
    np_arange(2 * arr_min, 2 * arr_max, 2 * base)

Bins_edges(arr_min, arr_max, base) ==
    np_arange(2 * arr_min, 2 * arr_max + base, 2 * base)

Bins_array_create(arr, base) ==
    IF arr.ndim # 1 THEN Raise("LSSUtils_Error", 130)
    ELSE IF Len(arr.data) = 0 THEN Raise("ValueError", 132)
    ELSE LET arr_min == myfloor(np_min(arr.data), base)
             arr_max == myceil(np_max(arr.data), base)
         IN  IF arr_min.kind = "raise" THEN arr_min
             ELSE IF arr_max.kind = "raise" THEN arr_max
             ELSE Return(Bins_edges(arr_min.value, arr_max.value, base))

(***************************************************************************)
(* Exact reals of sigma_calcs.  A value is NaN or (num + coef*sqrt(rad))/den*)
(* with den > 0 and rad >= 0: a mean is num/den, a standard deviation is   *)
(* sqrt(rad)/den.  Two values that both have coef # 0 share their rad      *)
(* (they come from the same row).                                          *)
(***************************************************************************)
RNaN == [nan |-> TRUE, num |-> 0, coef |-> 0, rad |-> 0, den |-> 1]
Real(num, coef, rad, den) ==
    [nan |-> FALSE, num |-> num, coef |-> coef, rad |-> rad, den |-> den]

\* k * a for an integer k.
RScale(k, a) == IF a.nan THEN RNaN ELSE Real(k * a.num, k * a.coef, a.rad, a.den)

RAdd(a, b) ==
    IF a.nan \/ b.nan THEN RNaN
    ELSE Real(a.num * b.den + b.num * a.den, a.coef * b.den + b.coef * a.den,
              IF a.coef # 0 THEN a.rad ELSE b.rad, a.den * b.den)

RSub(a, b) == RAdd(a, RScale(0 - 1, b))

RECURSIVE SeqSum(_)
SeqSum(s) == IF s = <<>> THEN 0 ELSE s[1] + SeqSum(Tail(s))

RECURSIVE SortSeq(_)
SortSeq(s) ==
    IF s = <<>> THEN <<>>
    ELSE LET m == SeqMin(s)
             i == CHOOSE j \in DOMAIN s : s[j] = m
         IN  <<m>> \o SortSeq([j \in 1..(Len(s) - 1) |-> IF j < i THEN s[j] ELSE s[j + 1]])

NotNaN(v) == ~IsNaN(v)

\* The entries the nan-functions of numpy keep.
Valid(row) == SelectSeq(row, NotNaN)

\* numpy.nanmean of one row: NaN when no entry is valid.
np_nanmean(row) ==
    LET v == Valid(row)
    IN  IF Len(v) = 0 THEN RNaN ELSE Real(SeqSum(v), 0, 0, Len(v))

\* numpy.nanstd of one row (ddof = 0): sqrt(n*sum(x^2) - sum(x)^2) / n.
np_nanstd(row) ==
    LET v == Valid(row)
        n == Len(v)
        S == SeqSum(v)
        Q == SeqSum([i \in 1..n |-> v[i] * v[i]])
    IN  IF n = 0 THEN RNaN ELSE Real(0, 1, n * Q - S * S, n)

\* numpy.nanpercentile of one row at the percentile q = q20/20 (linear
\* interpolation between the two nearest ranks of the sorted valid entries).
np_nanpercentile(row, q20) ==
    LET v == SortSeq(Valid(row))
        n == Len(v)
        pos == q20 * (n - 1)
        lo == pos \div 2000
        f == pos % 2000
        hi == IF lo + 1 < n THEN lo + 1 ELSE n - 1
    IN  IF n = 0 THEN RNaN
        ELSE Real(v[lo + 1] * (2000 - f) + v[hi + 1] * f, 0, 0, 2000)

(***************************************************************************)
(* sigma_calcs.  perc_arr is given in tenths of a percent.                 *)
(***************************************************************************)
perc_arr_default == <<680, 950, 997>>

\* The rows the reductions run over: the whole array (axis = 0 of a 1-D
\* array) or each row (axis = 1).
ReductionRows(data_arr) == IF data_arr.ndim = 1 THEN <<data_arr.data>> ELSE data_arr.data

\* A faulty lower bound with the sign of the deviation flipped (C7 must tell it
\* from mark_lower_std).
mark_lower_std_plus(mean_val, std_val, ii) == RAdd(mean_val, RScale(ii + 1, std_val))

mark_lower_std(mean_val, std_val, ii) == RSub(mean_val, RScale(ii + 1, std_val))

mark_upper_std(mean_val, std_val, ii) == RAdd(mean_val, RScale(ii + 1, std_val))

\* numpy.column_stack((mark_lower, mark_upper)).T, flattened for a 1-D input.
StackBand(data_arr, lower, upper) ==
    IF data_arr.ndim = 1 THEN <<lower[1], upper[1]>> ELSE <<lower, upper>>

sigma_calcs(data_arr, type_sigma, perc_arr, return_mean_std) ==
    LET rows == ReductionRows(data_arr)
        R == DOMAIN rows
        mean_val == [r \in R |-> np_nanmean(rows[r])]
        std_val == [r \in R |-> np_nanstd(rows[r])]
        sigma_dict ==
            [ii \in 0..(Len(perc_arr) - 1) |->
                IF type_sigma = "perc"
                THEN StackBand(data_arr,
                        [r \in R |-> np_nanpercentile(rows[r], 1000 - perc_arr[ii + 1])],
                        [r \in R |-> np_nanpercentile(rows[r], 1000 + perc_arr[ii + 1])])
                ELSE StackBand(data_arr,
                        [r \in R |-> mark_lower_std(mean_val[r], std_val[r], ii)],
                        [r \in R |-> mark_upper_std(mean_val[r], std_val[r], ii)])]
        mark_mean == IF data_arr.ndim = 1 THEN mean_val[1] ELSE mean_val
        mark_std == IF data_arr.ndim = 1 THEN std_val[1] ELSE std_val
    IN  IF return_mean_std THEN Return(<<sigma_dict, mark_mean, mark_std>>)
        ELSE Return(sigma_dict)

(***************************************************************************)
(* Stats_one_arr.                                                          *)
(***************************************************************************)
\* The names bound at module level once the module is imported.
ModuleGlobals ==
    {"print_function", "division", "absolute_import", "__author__", "__copyright__",
     "__email__", "__maintainer__", "__all__", "math", "np", "fd", "LSSUtils_Error",
     "myceil", "myfloor", "Bins_array_create", "sigma_calcs", "Stats_one_arr"}

\* The builtins the function reads.
Builtins == {"len", "int", "range"}

\* The local names of Stats_one_arr: its parameters and every name its body
\* assigns.
StatsLocals ==
    {"x", "y", "base", "arr_len", "arr_digit", "weights", "statfunc", "bin_statval",
     "failval", "file_msg", "msg", "nelem", "x_bins", "x_digits", "x_bins_data",
     "y_bins_data", "x_stat", "y_stat", "y_std", "y_std_err", "x_fail_idx",
     "perc_arr_lims", "return_val"}

\* Whether reading `name` inside Stats_one_arr finds a binding (a name that
\* resolves nowhere raises NameError).
Resolves(name) == name \in StatsLocals \cup ModuleGlobals \cup Builtins

ValidArrDigit(arr_digit) == arr_digit = "y" \/ arr_digit = "n" \/ arr_digit = "o"

ValidArrays(x, y) == Len(x) > 0 /\ Len(y) > 0

\* A faulty check that accepts zero (C6 must tell it from ValidArrLen).
ValidArrLen_zero(arr_len) == arr_len >= 0

ValidArrLen(arr_len) == arr_len > 0

ValidBinStatval(bin_statval) == bin_statval \in {"average", "left", "right"}

\* The call up to the first statement that cannot complete.  Every call that
\* passes the four validations reads the name x1 at line 304, which nothing
\* binds, so lines 305-383 never run.
Stats_one_arr(x, y, base, arr_len, arr_digit, statfunc, bin_statval, failval) ==
    CASE ~ValidArrDigit(arr_digit) -> Raise("LSSUtils_Error", 284)
      [] ValidArrDigit(arr_digit) /\ ~ValidArrays(x, y) -> Raise("LSSUtils_Error", 289)
      [] ValidArrDigit(arr_digit) /\ ValidArrays(x, y) /\ ~ValidArrLen(arr_len) ->
             Raise("LSSUtils_Error", 294)
      [] ValidArrDigit(arr_digit) /\ ValidArrays(x, y) /\ ValidArrLen(arr_len)
           /\ ~ValidBinStatval(bin_statval) -> Raise("LSSUtils_Error", 299)
      [] ValidArrDigit(arr_digit) /\ ValidArrays(x, y) /\ ValidArrLen(arr_len)
           /\ ValidBinStatval(bin_statval) /\ ~Resolves("x1") -> Raise("NameError", 304)

\* numpy.digitize(v, bins) for increasing bins: the number of edges <= v.
np_digitize(v, bins) == Cardinality({j \in DOMAIN bins : bins[j] <= v})

\* a[x_digits == ii]: the entries of a at the positions digitized to bin ii.
RECURSIVE BinData(_, _, _)
BinData(a, x_digits, ii) ==
    IF a = <<>> THEN <<>>
    ELSE (IF x_digits[1] = ii THEN <<a[1]>> ELSE <<>>)
           \o BinData(Tail(a), Tail(x_digits), ii)

(***************************************************************************)
(* The calls.                                                              *)
(***************************************************************************)
\* The state after "import stats_funcs": nothing has been called.  No function of
\* the module reads or writes anything that outlives its call, so every call
\* starts from this state.
Init ==
    /\ call = [fn |-> "import"]
    /\ ret = Return(<<>>)

Imported == call.fn = "import"

Call_myceil ==
    /\ Imported
    /\ \E x \in Floats, base \in Bases :
        /\ call' = [fn |-> "myceil", x |-> x, base |-> base]
        /\ ret' = myceil(x, base)

Call_myfloor ==
    /\ Imported
    /\ \E x \in Floats, base \in Bases :
        /\ call' = [fn |-> "myfloor", x |-> x, base |-> base]
        /\ ret' = myfloor(x, base)

Call_Bins_array_create ==
    /\ Imported
    /\ \E arr \in NdArray1(Floats, MaxLen) \cup NdArray2({0}, MaxLen), base \in Bases :
        /\ call' = [fn |-> "Bins_array_create", arr |-> arr, base |-> base]
        /\ ret' = Bins_array_create(arr, base)

SigVals == (0 - 1)..MaxSig
SigFloats == SigVals \cup {NaN}

\* perc_arr: the first n levels of the default, 100% for any further level.
Percs(n) == [i \in 1..n |-> IF i <= Len(perc_arr_default) THEN perc_arr_default[i] ELSE 1000]

Call_sigma_calcs ==
    /\ Imported
    /\ \E data_arr \in NdArray1(SigFloats, MaxCells) \cup NdArray2(SigFloats, MaxCells),
       type_sigma \in {"std", "perc"}, n \in 0..MaxLevels, return_mean_std \in BOOLEAN :
        /\ call' = [fn |-> "sigma_calcs", data_arr |-> data_arr, type_sigma |-> type_sigma,
                    perc_arr |-> Percs(n), return_mean_std |-> return_mean_std]
        /\ ret' = sigma_calcs(data_arr, type_sigma, Percs(n), return_mean_std)

StatVals == 0..MaxStatVal

\* y: empty, or one entry per entry of x (a single entry when x is empty).
StatYs(x) == {<<>>, [i \in 1..(IF Len(x) = 0 THEN 1 ELSE Len(x)) |-> i - 1]}

Call_Stats_one_arr ==
    /\ Imported
    /\ \E x \in Arr1D(StatVals, MaxStatLen), base \in 1..MaxBase, arr_len \in 0..MaxCount,
          arr_digit \in {"n", "y", "o", "a"}, statfunc \in {"nanmean", "nanmedian"},
          bin_statval \in {"average", "left", "right", "center"}, failval \in {NaN, 0} :
        \E y \in StatYs(x) :
        /\ call' = [fn |-> "Stats_one_arr", x |-> x, y |-> y, base |-> base,
                    arr_len |-> arr_len, arr_digit |-> arr_digit, statfunc |-> statfunc,
                    bin_statval |-> bin_statval, failval |-> failval]
        /\ ret' = Stats_one_arr(x, y, base, arr_len, arr_digit, statfunc, bin_statval,
                                failval)

Next ==
    \/ Call_Stats_one_arr
    \/ Call_sigma_calcs
    \/ Call_myceil
    \/ Call_myfloor
    \/ Call_Bins_array_create

Spec == Init /\ [][Next]_vars

(***************************************************************************)
(* Properties of myceil, myfloor and Bins_array_create.                    *)
(***************************************************************************)
IsBinsCall == call.fn = "Bins_array_create"

\* A call of Bins_array_create on a non-empty 1-D array of numbers, base > 0.
BinsCallOnNumbers ==
    /\ IsBinsCall
    /\ call.arr.ndim = 1
    /\ Len(call.arr.data) > 0
    /\ ~HasNaN(call.arr.data)
    /\ call.base > 0

\* C1: for base > 0 and a number x, myceil(x, base) is the smallest multiple of
\* base that is >= x and myfloor(x, base) the largest multiple of base that is
\* <= x; hence for a non-empty array a,
\* myfloor(min(a), base) <= min(a) <= max(a) <= myceil(max(a), base).
C1_RoundingBrackets ==
    /\ (call.fn = "myceil" /\ call.base > 0 /\ ~IsNaN(call.x)) =>
          /\ ret.kind = "return"
          /\ ret.value % call.base = 0
          /\ ret.value >= call.x
          /\ ret.value - call.base < call.x
    /\ (call.fn = "myfloor" /\ call.base > 0 /\ ~IsNaN(call.x)) =>
          /\ ret.kind = "return"
          /\ ret.value % call.base = 0
          /\ ret.value <= call.x
          /\ ret.value + call.base > call.x
    /\ BinsCallOnNumbers =>
          LET lo == myfloor(np_min(call.arr.data), call.base)
              hi == myceil(np_max(call.arr.data), call.base)
          IN  /\ lo.kind = "return"
              /\ hi.kind = "return"
              /\ lo.value <= SeqMin(call.arr.data)
              /\ SeqMin(call.arr.data) <= SeqMax(call.arr.data)
              /\ SeqMax(call.arr.data) <= hi.value

\* A myceil call that rounds a non-multiple of a base > 1 up.
C1_Witness ==
    /\ call.fn = "myceil"
    /\ call.base > 1
    /\ ~IsNaN(call.x)
    /\ call.x % call.base # 0
    /\ ret.kind = "return"
    /\ ret.value > call.x

\* C2: for a non-empty 1-D array and base > 0 the edges returned by
\* Bins_array_create are strictly increasing, consecutive edges differ by
\* exactly base, the first edge is myfloor(min, base) and the last edge is
\* >= myceil(max, base), so the edges span [min, max].
C2_EdgesEvenlySpaced ==
    BinsCallOnNumbers =>
        /\ ret.kind = "return"
        /\ Len(ret.value) >= 1
        /\ \A i \in 1..(Len(ret.value) - 1) :
              /\ ret.value[i] < ret.value[i + 1]
              /\ ret.value[i + 1] - ret.value[i] = call.base
        /\ ret.value[1] = myfloor(SeqMin(call.arr.data), call.base).value
        /\ ret.value[Len(ret.value)] >= myceil(SeqMax(call.arr.data), call.base).value
        /\ ret.value[1] <= SeqMin(call.arr.data)
        /\ ret.value[Len(ret.value)] >= SeqMax(call.arr.data)

\* Edges of at least two bins, the data strictly inside them.
C2_Witness ==
    /\ BinsCallOnNumbers
    /\ ret.kind = "return"
    /\ Len(ret.value) >= 3
    /\ ret.value[1] < SeqMin(call.arr.data)
    /\ ret.value[Len(ret.value)] > SeqMax(call.arr.data)

(***************************************************************************)
(* Properties of sigma_calcs.                                              *)
(***************************************************************************)
\* a <= b as IEEE compares: FALSE when either is NaN.  With d the rational part
\* of a - b and e*sqrt(rad) the irrational part of b - a (both over the common
\* positive denominator), a <= b iff d <= e*sqrt(rad).
RLeq(a, b) ==
    /\ ~a.nan
    /\ ~b.nan
    /\ LET d == a.num * b.den - b.num * a.den
           e == b.coef * a.den - a.coef * b.den
           rad == IF a.coef # 0 THEN a.rad ELSE b.rad
       IN  IF d <= 0 /\ e >= 0 THEN TRUE
           ELSE IF d > 0 /\ e < 0 THEN FALSE
           ELSE IF d <= 0 THEN d * d >= e * e * rad
           ELSE d * d <= e * e * rad

IsStdSigmaCall == call.fn = "sigma_calcs" /\ call.type_sigma = "std"

SigmaDict == IF call.return_mean_std THEN ret.value[1] ELSE ret.value

\* The lower and upper bound of level k (0-based) for reduction row r.
Lower(k, r) == IF call.data_arr.ndim = 1 THEN SigmaDict[k][1] ELSE SigmaDict[k][1][r]
Upper(k, r) == IF call.data_arr.ndim = 1 THEN SigmaDict[k][2] ELSE SigmaDict[k][2][r]

Levels == 0..(Len(call.perc_arr) - 1)

\* lower[k] <= upper[k], and band k lies inside band k+1, for row r.
BandsNested(r) ==
    \A k \in Levels :
        /\ RLeq(Lower(k, r), Upper(k, r))
        /\ (k + 1) \in Levels =>
              /\ RLeq(Lower(k + 1, r), Lower(k, r))
              /\ RLeq(Upper(k, r), Upper(k + 1, r))

\* C7 as stated: with type_sigma = 'std', for every input row and every level
\* k, lower[k] <= upper[k] and the bands are nested.
C7_NestedEveryRow ==
    IsStdSigmaCall =>
        /\ ret.kind = "return"
        /\ \A r \in DOMAIN ReductionRows(call.data_arr) : BandsNested(r)

\* C7 amended: with type_sigma = 'std', for every input row that holds at
\* least one entry that is not NaN, and every level k, lower[k] <= upper[k]
\* and the bands are nested.
C7_NestedValidRows ==
    IsStdSigmaCall =>
        /\ ret.kind = "return"
        /\ \A r \in DOMAIN ReductionRows(call.data_arr) :
              Len(Valid(ReductionRows(call.data_arr)[r])) > 0 => BandsNested(r)

\* A 2-D input, three levels, a row of positive spread: its bands are strictly
\* nested.
C7_Witness ==
    /\ IsStdSigmaCall
    /\ call.data_arr.ndim = 2
    /\ Len(call.perc_arr) = 3
    /\ \E r \in DOMAIN call.data_arr.data :
          /\ Len(Valid(call.data_arr.data[r])) > 1
          /\ ~RLeq(Lower(0, r), Lower(1, r))
          /\ ~RLeq(Lower(1, r), Lower(2, r))
          /\ ~RLeq(Upper(2, r), Upper(1, r))

(***************************************************************************)
(* Properties of Stats_one_arr.                                            *)
(***************************************************************************)
IsStatsCall == call.fn = "Stats_one_arr"

\* The arguments pass the four checks of lines 281-299.
StatsArgsAccepted ==
    /\ IsStatsCall
    /\ call.arr_digit \in {"n", "y", "o"}
    /\ Len(call.x) > 0
    /\ Len(call.y) > 0
    /\ call.arr_len > 0
    /\ call.bin_statval \in {"average", "left", "right"}

\* C6: when arr_digit is not one of 'n','y','o', or x or y is empty, or arr_len
\* is not > 0, or bin_statval is not one of 'average','left','right', the call
\* ends with an LSSUtils_Error raised before line 308, the first line that
\* computes bin edges, digits or per-bin statistics.
C6_ValidationIsEager ==
    (IsStatsCall /\ ~StatsArgsAccepted) =>
        /\ ret.kind = "raise"
        /\ ret.exc = "LSSUtils_Error"
        /\ ret.line < 308

\* Only arr_len is wrong (zero): the third check raises.
C6_Witness ==
    /\ IsStatsCall
    /\ call.arr_digit = "y"
    /\ Len(call.x) > 1
    /\ Len(call.y) > 1
    /\ call.arr_len = 0
    /\ call.bin_statval = "left"
    /\ ret.kind = "raise"
    /\ ret.exc = "LSSUtils_Error"
    /\ ret.line = 294

\* The edges, digits and bins the accepted call is about (lines 308-319, with
\* the edges built from x).
StatsEdges == Bins_array_create([ndim |-> 1, data |-> call.x], call.base).value
StatsDigits == [i \in DOMAIN call.x |-> np_digitize(call.x[i], StatsEdges)]
StatsBins == 1..(Len(StatsEdges) - 1)
Occupancy(ii) == Len(BinData(call.x, StatsDigits, ii))

\* The left edges of the bins that hold at least arr_len entries, in order.
RECURSIVE KeptLeftEdges(_)
KeptLeftEdges(ii) ==
    IF ii \notin StatsBins THEN <<>>
    ELSE (IF Occupancy(ii) >= call.arr_len THEN <<StatsEdges[ii]>> ELSE <<>>)
           \o KeptLeftEdges(ii + 1)

SeqRange(s) == {s[i] : i \in DOMAIN s}

\* C3: for arr_len > 0, a bin whose occupancy is exactly arr_len is included in
\* the returned statistics and a bin whose occupancy is arr_len - 1 is
\* excluded.  Stated for bin_statval = 'left' and arr_digit 'n' or 'y', where
\* the x-statistic of a bin is its left edge.
C3_MinCountIncluded ==
    (StatsArgsAccepted /\ call.bin_statval = "left" /\ call.arr_digit \in {"n", "y"}) =>
        /\ ret.kind = "return"
        /\ \A ii \in StatsBins :
              /\ Occupancy(ii) = call.arr_len => StatsEdges[ii] \in SeqRange(ret.value[1])
              /\ Occupancy(ii) = call.arr_len - 1 =>
                    StatsEdges[ii] \notin SeqRange(ret.value[1])

\* C4: an accepted call in which some bin holds fewer than arr_len entries
\* returns normally, the failed bins are absent and the surviving bins keep
\* their order.  Stated for bin_statval = 'left' and arr_digit 'n' or 'y'.
C4_FailedBinsDropped ==
    (/\ StatsArgsAccepted
     /\ call.bin_statval = "left"
     /\ call.arr_digit \in {"n", "y"}
     /\ \E ii \in StatsBins : Occupancy(ii) < call.arr_len) =>
        /\ ret.kind = "return"
        /\ ret.value[1] = KeptLeftEdges(1)

\* C5: for every accepted call the returned x-stat, y-stat, y-std and y-stderr
\* arrays (and the raw per-bin x and y arrays when returned) have the same
\* length.
C5_EqualLengths ==
    (StatsArgsAccepted /\ call.arr_digit \in {"n", "y"}) =>
        /\ ret.kind = "return"
        /\ \A j \in 2..(IF call.arr_digit = "y" THEN 6 ELSE 4) :
              Len(ret.value[j]) = Len(ret.value[1])

\* C8: for the same x, y, base, arr_len and bin label, the standard errors
\* returned with numpy.nanmedian equal those returned with numpy.nanmean times
\* 1.253, element by element.
C8_MedianStdErrScaled ==
    (StatsArgsAccepted /\ call.arr_digit \in {"n", "y"} /\ call.statfunc = "nanmedian") =>
        LET mean == Stats_one_arr(call.x, call.y, call.base, call.arr_len,
                                  call.arr_digit, "nanmean", call.bin_statval,
                                  call.failval)
        IN  /\ ret.kind = "return"
            /\ mean.kind = "return"
            /\ Len(ret.value[4]) = Len(mean.value[4])
            /\ \A i \in DOMAIN mean.value[4] :
                  RLeq(RScale(1000, ret.value[4][i]), RScale(1253, mean.value[4][i]))
                  /\ RLeq(RScale(1253, mean.value[4][i]), RScale(1000, ret.value[4][i]))

\* C9: the output mode decides the result: 'n' returns x-stat, y-stat, y-std,
\* y-stderr; 'y' those four and the raw per-bin x and y arrays; 'o' only the
\* raw per-bin x and y arrays (no percentiles are requested: the function has
\* no parameter that requests them).
C9_ResultByMode ==
    StatsArgsAccepted =>
        /\ ret.kind = "return"
        /\ Len(ret.value) = (CASE call.arr_digit = "n" -> 4
                               [] call.arr_digit = "y" -> 6
                               [] call.arr_digit = "o" -> 2)

\* C10: with the edges built from x itself, every element of x is digitized to
\* a data bin, an index in 1..len(edges)-1 (none gets 0 or len(edges)).
C10_EveryElementInABin ==
    StatsArgsAccepted =>
        \A i \in DOMAIN call.x : StatsDigits[i] \in StatsBins

====
